---- MODULE Spec2Model ----
\* sabcom: transfer of a byte payload between two threads through one
\* SharedArrayBuffer, synchronised by a semaphore word and Atomics.wait/notify.
\* The model follows src/src/index.ts (writeGenerator, readGenerator and the
\* four drains writeSync / write / readSync / read), one action per statement
\* that touches the shared region.
EXTENDS Integers, Sequences, FiniteSets, TLC

\* ---------------------------------------------------------------- bounds

\* Number of 32-bit words of the payload area (region = header + these words).
PayloadWords == 1

\* ------------------------------------------------------ program constants

SEMAPHORE == 0

READY == 0

HANDSHAKE == 1

PAYLOAD == 2

TOTAL_SIZE == 1

TOTAL_CHUNKS == 2

CHUNK_INDEX == 1

CHUNK_OFFSET == 2

CHUNK_SIZE == 3

HEADER_VALUES == 4

BYTES_PER_ELEMENT == 4

HEADER_SIZE == BYTES_PER_ELEMENT * HEADER_VALUES

DefaultTimeout == 5000

\* ------------------------------------------------------------- variables

VARIABLES
  byteLength,  \* buffer.byteLength of the shared region
  header,      \* Int32Array view: words 0..3
  payload,     \* Uint8Array view of the payload area, 1-based
  waiters,     \* parties suspended in Atomics.wait / waitAsync on word 0
  script,      \* per party, the calls it makes in order
  opIdx,       \* per party, the index of its current call in script
  pc,          \* per party, the statement it is at
  phase,       \* per party, the yield its generator is suspended at
  req,         \* per party, the WaitRequest its generator yielded
  wres,        \* per party, the WaitResponse of its last wait
  loc,         \* per party, the locals of its running generator
  results,     \* per party, the outcome of each finished call
  stores,      \* history: every Atomics.store on the semaphore, in order,
               \* as <<party, value, statement>>
  last2,       \* history: per party, its last two accesses to the region
  yielded,     \* history: per party, the WaitRequests its generators have
               \* yielded, in order
  written      \* history: per header word 1..3, the phase ("handshake" or
               \* "chunk") of the writeGenerator assignment that last set it

vars == <<byteLength, header, payload, waiters, script, opIdx, pc, phase, req,
          wres, loc, results, stores, last2, yielded, written>>

Parties == {"A", "B"}

\* ------------------------------------------------------------- helpers

Min(a, b) == IF a <= b THEN a ELSE b

\* A length or index n >= 0 stored into an Int32Array element: unchanged up to
\* 2^31 - 1, wrapped to n - 2^32 above it (n < 2^32).
ToInt32(n) ==
  IF n <= 2147483647 THEN n ELSE ((n - 2147483647) - 2147483647) - 2

\* Math.ceil(a / b) for a >= 0, b > 0, with floor division in place of ceil.
MathCeilDivFloor(a, b) == a \div b

\* Math.ceil(a / b) for a >= 0, b > 0.
MathCeilDiv(a, b) == IF a % b = 0 THEN a \div b ELSE (a \div b) + 1

\* The capacity computed for a header of five words.
ChunkCapacityFiveWords == byteLength - HEADER_SIZE - BYTES_PER_ELEMENT

\* chunkSize = buffer.byteLength - HEADER_SIZE
ChunkCapacity == byteLength - HEADER_SIZE

\* new Uint8Array(n)
Zeros(n) == [k \in 1..n |-> 0]

\* target.set(source.subarray(from, from + n), at), all 0-based as in the code.
SetBytes(target, source, from, n, at) ==
  [k \in 1..Len(target) |->
     IF at < k /\ k <= at + n THEN source[from + (k - at)] ELSE target[k]]

\* History of target.set(..., at) calls: cover[k] counts the copies that wrote
\* position k of the target (1-based), after one more copy of n bytes at `at`.
Covered(cover, n, at) ==
  [k \in 1..Len(cover) |->
     IF at < k /\ k <= at + n THEN cover[k] + 1 ELSE cover[k]]

Outcome(kind, msg, a, b, value) ==
  [kind |-> kind, msg |-> msg, a |-> a, b |-> b, value |-> value]

Ok(value) == Outcome("ok", "", 0, 0, value)

Err(msg, a, b) == Outcome("error", msg, a, b, <<>>)

Cancelled == Outcome("cancelled", "", 0, 0, <<>>)

WriteOp(data) == [kind |-> "write", data |-> data]

ReadOp == [kind |-> "read", data |-> <<>>]

WaitRequest(value) ==
  [index |-> SEMAPHORE, value |-> value, timeout |-> DefaultTimeout]

NoRequest == [index |-> SEMAPHORE, value |-> READY, timeout |-> 0]

EmptyLoc ==
  [input |-> <<>>, totalSize |-> 0, totalChunks |-> 0, i |-> 0,
   chunkIndex |-> 0, offset |-> 0, size |-> 0, data |-> <<>>,
   err |-> Ok(<<>>), acked |-> FALSE, copied |-> 0, staged |-> 0,
   cover |-> <<>>]

HasOp(p) == opIdx[p] <= Len(script[p])

Op(p) == script[p][opIdx[p]]

\* The call returns or throws: its outcome is recorded, the next call is due.
Finish(p, o) ==
  /\ results' = [results EXCEPT ![p] = Append(@, o)]
  /\ opIdx' = [opIdx EXCEPT ![p] = @ + 1]

Touch(p, what) == last2' = [last2 EXCEPT ![p] = <<@[2], what>>]

\* Atomics.store(header, SEMAPHORE, v)
AtomicsStore(p, v) ==
  /\ header' = [header EXCEPT ![SEMAPHORE] = v]
  /\ stores' = Append(stores, <<p, v, pc[p]>>)
  /\ Touch(p, IF v = READY THEN "store READY" ELSE "store")

\* Atomics.notify(header, SEMAPHORE) by p, which then goes to statement next:
\* every waiter on the word is woken with "ok", whatever the word holds.
AtomicsNotify(p, next) ==
  /\ pc' = [q \in Parties |->
              IF q = p THEN next
              ELSE IF q \in waiters THEN "resume" ELSE pc[q]]
  /\ wres' = [q \in Parties |-> IF q \in waiters THEN "ok" ELSE wres[q]]
  /\ waiters' = {}
  /\ Touch(p, "notify")

\* { timeout = 5000 }: Options = {}: the timeout option of p's current call,
\* 5000 when the call gives none.
TimeoutOf(p) ==
  IF "timeout" \in DOMAIN Op(p) THEN Op(p).timeout ELSE DefaultTimeout

\* yield { target: header, index: SEMAPHORE, value, timeout }
Yield(p, ph, value) ==
  LET request == [WaitRequest(value) EXCEPT !.timeout = TimeoutOf(p)]
  IN  /\ phase' = [phase EXCEPT ![p] = ph]
      /\ req' = [req EXCEPT ![p] = request]
      /\ yielded' = [yielded EXCEPT ![p] = Append(@, request)]

Goto(p, next) == pc' = [pc EXCEPT ![p] = next]

\* ---------------------------------------------------------- the drains

\* writeSync / write / readSync / read: the yielded request is passed to
\* Atomics.wait (or waitAsync). The word is compared atomically: a different
\* value returns "not-equal" at once, an equal one suspends the caller.
AtomicsWait(p) ==
  /\ pc[p] = "wait"
  /\ IF header[req[p].index] # req[p].value
       THEN /\ wres' = [wres EXCEPT ![p] = "not-equal"]
            /\ Goto(p, "resume")
            /\ UNCHANGED waiters
       ELSE /\ waiters' = waiters \cup {p}
            /\ Goto(p, "sleep")
            /\ UNCHANGED wres
  /\ Touch(p, "wait")
  /\ UNCHANGED <<byteLength, written, yielded, header, payload, script, opIdx, phase, req, loc,
                 results, stores>>

\* The timeout of a suspended wait elapses.
WaitTimeout(p) ==
  /\ pc[p] = "sleep"
  /\ p \in waiters
  /\ waiters' = waiters \ {p}
  /\ wres' = [wres EXCEPT ![p] = "timed-out"]
  /\ Goto(p, "resume")
  /\ UNCHANGED <<byteLength, written, yielded, header, payload, script, opIdx, phase, req, loc,
                 results, stores, last2>>

\* ------------------------------------------------------ writeGenerator

\* The region checks in the other order: the size before the multiple of 4.
WriterStartSizeFirst(p) ==
  /\ pc[p] = "idle"
  /\ HasOp(p)
  /\ Op(p).kind = "write"
  /\ IF ChunkCapacity <= 0
       THEN /\ Finish(p, Err("SharedArrayBuffer too small for header", 0, 0))
            /\ UNCHANGED <<pc, loc>>
       ELSE IF byteLength % BYTES_PER_ELEMENT # 0
       THEN /\ Finish(p, Err("SharedArrayBuffer byteLength must be a multiple of 4", 0, 0))
            /\ UNCHANGED <<pc, loc>>
       ELSE /\ loc' = [loc EXCEPT ![p] =
                        [EmptyLoc EXCEPT
                           !.input = Op(p).data,
                           !.totalSize = Len(Op(p).data),
                           !.totalChunks = MathCeilDiv(Len(Op(p).data), ChunkCapacity)]]
            /\ Goto(p, "w_hsSize")
            /\ UNCHANGED <<results, opIdx>>
  /\ UNCHANGED <<byteLength, written, yielded, header, payload, waiters, script, phase, req,
                 wres, stores, last2>>

\* gen.next() up to the first header write: the region checks and the totals.
WriterStart(p) ==
  /\ pc[p] = "idle"
  /\ HasOp(p)
  /\ Op(p).kind = "write"
  /\ IF byteLength % BYTES_PER_ELEMENT # 0
       THEN /\ Finish(p, Err("SharedArrayBuffer byteLength must be a multiple of 4", 0, 0))
            /\ UNCHANGED <<pc, loc>>
       ELSE IF ChunkCapacity <= 0
       THEN /\ Finish(p, Err("SharedArrayBuffer too small for header", 0, 0))
            /\ UNCHANGED <<pc, loc>>
       ELSE /\ loc' = [loc EXCEPT ![p] =
                        [EmptyLoc EXCEPT
                           !.input = Op(p).data,
                           !.totalSize = Len(Op(p).data),
                           !.totalChunks = MathCeilDiv(Len(Op(p).data), ChunkCapacity)]]
            /\ Goto(p, "w_hsSize")
            /\ UNCHANGED <<results, opIdx>>
  /\ UNCHANGED <<byteLength, written, yielded, header, payload, waiters, script, phase, req,
                 wres, stores, last2>>

\* header[Handshake.TOTAL_SIZE] = totalSize
WriteTotalSize(p) ==
  /\ pc[p] = "w_hsSize"
  /\ header' = [header EXCEPT ![TOTAL_SIZE] = ToInt32(loc[p].totalSize)]
  /\ written' = [written EXCEPT ![TOTAL_SIZE] = "handshake"]
  /\ Touch(p, "write")
  /\ Goto(p, "w_hsChunks")
  /\ UNCHANGED <<byteLength, yielded, payload, waiters, script, opIdx, phase, req,
                 wres, loc, results, stores>>

\* header[Handshake.TOTAL_CHUNKS] = totalChunks
WriteTotalChunks(p) ==
  /\ pc[p] = "w_hsChunks"
  /\ header' = [header EXCEPT ![TOTAL_CHUNKS] = ToInt32(loc[p].totalChunks)]
  /\ written' = [written EXCEPT ![TOTAL_CHUNKS] = "handshake"]
  /\ Touch(p, "write")
  /\ Goto(p, "w_hsStore")
  /\ UNCHANGED <<byteLength, yielded, payload, waiters, script, opIdx, phase, req,
                 wres, loc, results, stores>>

\* Atomics.store(header, SEMAPHORE, Semaphore.HANDSHAKE)
StoreHandshake(p) ==
  /\ pc[p] = "w_hsStore"
  /\ AtomicsStore(p, HANDSHAKE)
  /\ Goto(p, "w_hsNotify")
  /\ UNCHANGED <<byteLength, written, yielded, payload, waiters, script, opIdx, phase, req,
                 wres, loc, results>>

\* Atomics.notify, then the first yield (expected value HANDSHAKE).
NotifyHandshake(p) ==
  /\ pc[p] = "w_hsNotify"
  /\ AtomicsNotify(p, "wait")
  /\ Yield(p, "w_hs", HANDSHAKE)
  /\ UNCHANGED <<byteLength, written, header, payload, script, opIdx, loc, results,
                 stores>>

\* gen.next(handshakeResult): throw on "timed-out", else enter the chunk loop.
WriterResumeHandshake(p) ==
  /\ pc[p] = "resume"
  /\ phase[p] = "w_hs"
  /\ IF wres[p] = "timed-out"
       THEN /\ loc' = [loc EXCEPT ![p].err = Err("Reader handshake timeout", 0, 0)]
            /\ Goto(p, "w_finStore")
       ELSE /\ loc' = [loc EXCEPT ![p].i = 0]
            /\ Goto(p, IF 0 < loc[p].totalChunks THEN "w_set" ELSE "w_finStore")
  /\ UNCHANGED <<byteLength, written, yielded, header, payload, waiters, script, opIdx, phase,
                 req, wres, results, stores, last2>>

\* payload.set(data.subarray(start, end), 0)
StageChunk(p) ==
  /\ pc[p] = "w_set"
  /\ LET start == loc[p].i * ChunkCapacity
         end == Min(start + ChunkCapacity, loc[p].totalSize)
     IN  payload' = SetBytes(payload, loc[p].input, start, end - start, 0)
  /\ loc' = [loc EXCEPT ![p].staged = @ + 1]
  /\ Touch(p, "write")
  /\ Goto(p, "w_idx")
  /\ UNCHANGED <<byteLength, written, yielded, header, waiters, script, opIdx, phase, req, wres,
                 results, stores>>

\* header[Header.CHUNK_INDEX] = i
WriteChunkIndex(p) ==
  /\ pc[p] = "w_idx"
  /\ header' = [header EXCEPT ![CHUNK_INDEX] = ToInt32(loc[p].i)]
  /\ written' = [written EXCEPT ![CHUNK_INDEX] = "chunk"]
  /\ Touch(p, "write")
  /\ Goto(p, "w_off")
  /\ UNCHANGED <<byteLength, yielded, payload, waiters, script, opIdx, phase, req,
                 wres, loc, results, stores>>

\* header[Header.CHUNK_OFFSET] = start
WriteChunkOffset(p) ==
  /\ pc[p] = "w_off"
  /\ header' = [header EXCEPT ![CHUNK_OFFSET] = ToInt32(loc[p].i * ChunkCapacity)]
  /\ written' = [written EXCEPT ![CHUNK_OFFSET] = "chunk"]
  /\ Touch(p, "write")
  /\ Goto(p, "w_size")
  /\ UNCHANGED <<byteLength, yielded, payload, waiters, script, opIdx, phase, req,
                 wres, loc, results, stores>>

\* header[Header.CHUNK_SIZE] = size
WriteChunkSize(p) ==
  /\ pc[p] = "w_size"
  /\ LET start == loc[p].i * ChunkCapacity
         end == Min(start + ChunkCapacity, loc[p].totalSize)
     IN  header' = [header EXCEPT ![CHUNK_SIZE] = ToInt32(end - start)]
  /\ written' = [written EXCEPT ![CHUNK_SIZE] = "chunk"]
  /\ Touch(p, "write")
  /\ Goto(p, "w_plStore")
  /\ UNCHANGED <<byteLength, yielded, payload, waiters, script, opIdx, phase, req,
                 wres, loc, results, stores>>

\* PAYLOAD is stored and the chunk yield follows without a notify.
StorePayloadNoNotify(p) ==
  /\ pc[p] = "w_plStore"
  /\ AtomicsStore(p, PAYLOAD)
  /\ Goto(p, "wait")
  /\ Yield(p, "w_pl", PAYLOAD)
  /\ UNCHANGED <<byteLength, written, payload, waiters, script, opIdx, wres, loc,
                 results>>

\* Atomics.store(header, SEMAPHORE, Semaphore.PAYLOAD)
StorePayload(p) ==
  /\ pc[p] = "w_plStore"
  /\ AtomicsStore(p, PAYLOAD)
  /\ Goto(p, "w_plNotify")
  /\ UNCHANGED <<byteLength, written, yielded, payload, waiters, script, opIdx, phase, req,
                 wres, loc, results>>

\* Atomics.notify, then the chunk yield (expected value PAYLOAD).
NotifyPayload(p) ==
  /\ pc[p] = "w_plNotify"
  /\ AtomicsNotify(p, "wait")
  /\ Yield(p, "w_pl", PAYLOAD)
  /\ UNCHANGED <<byteLength, written, header, payload, script, opIdx, loc, results,
                 stores>>

\* The chunk timeout names the chunk after the one that was awaited.
WriterResumePayloadNextIndex(p) ==
  /\ pc[p] = "resume"
  /\ phase[p] = "w_pl"
  /\ IF wres[p] = "timed-out"
       THEN /\ loc' = [loc EXCEPT ![p].err =
                        Err("Reader timeout on chunk", loc[p].i + 1, loc[p].totalChunks - 1)]
            /\ Goto(p, "w_finStore")
       ELSE /\ loc' = [loc EXCEPT ![p].i = @ + 1]
            /\ Goto(p, IF loc[p].i + 1 < loc[p].totalChunks THEN "w_set" ELSE "w_finStore")
  /\ UNCHANGED <<byteLength, written, yielded, header, payload, waiters, script, opIdx, phase,
                 req, wres, results, stores, last2>>

\* gen.next(chunkResult): throw on "timed-out", else i++ and the loop test.
WriterResumePayload(p) ==
  /\ pc[p] = "resume"
  /\ phase[p] = "w_pl"
  /\ IF wres[p] = "timed-out"
       THEN /\ loc' = [loc EXCEPT ![p].err =
                        Err("Reader timeout on chunk", loc[p].i, loc[p].totalChunks - 1)]
            /\ Goto(p, "w_finStore")
       ELSE /\ loc' = [loc EXCEPT ![p].i = @ + 1]
            /\ Goto(p, IF loc[p].i + 1 < loc[p].totalChunks THEN "w_set" ELSE "w_finStore")
  /\ UNCHANGED <<byteLength, written, yielded, header, payload, waiters, script, opIdx, phase,
                 req, wres, results, stores, last2>>

\* The generator is dropped at the yield and its finally block never runs.
WriterAbandonNoCleanup(p) ==
  /\ pc[p] \in {"wait", "resume"}
  /\ phase[p] \in {"w_hs", "w_pl"}
  /\ loc' = [loc EXCEPT ![p].err = Cancelled]
  /\ Finish(p, Cancelled)
  /\ Goto(p, "idle")
  /\ UNCHANGED <<byteLength, written, yielded, header, payload, waiters, script, phase, req,
                 wres, stores, last2>>

\* The caller abandons the generator at a yielded request (gen.return(), or
\* break out of for...of): control passes to the finally block.
WriterAbandon(p) ==
  /\ pc[p] \in {"wait", "resume"}
  /\ phase[p] \in {"w_hs", "w_pl"}
  /\ loc' = [loc EXCEPT ![p].err = Cancelled]
  /\ Goto(p, "w_finStore")
  /\ UNCHANGED <<byteLength, written, yielded, header, payload, waiters, script, opIdx, phase,
                 req, wres, results, stores, last2>>

\* A cleanup that runs on the success path only (not in a finally block).
WriterFinallyStoreOnSuccess(p) ==
  /\ pc[p] = "w_finStore"
  /\ IF loc[p].err.kind = "ok"
       THEN AtomicsStore(p, READY)
       ELSE UNCHANGED <<header, stores, last2>>
  /\ Goto(p, "w_finNotify")
  /\ UNCHANGED <<byteLength, written, yielded, payload, waiters, script, opIdx, phase, req,
                 wres, loc, results>>

\* finally: Atomics.store(header, SEMAPHORE, Semaphore.READY)
WriterFinallyStore(p) ==
  /\ pc[p] = "w_finStore"
  /\ AtomicsStore(p, READY)
  /\ Goto(p, "w_finNotify")
  /\ UNCHANGED <<byteLength, written, yielded, payload, waiters, script, opIdx, phase, req,
                 wres, loc, results>>

\* finally: Atomics.notify; the generator then returns or rethrows.
WriterFinallyNotify(p) ==
  /\ pc[p] = "w_finNotify"
  /\ AtomicsNotify(p, "idle")
  /\ Finish(p, loc[p].err)
  /\ UNCHANGED <<byteLength, written, yielded, header, payload, script, phase, req, loc, stores>>

\* ------------------------------------------------------ readGenerator

\* gen.next() up to the first yield: the region checks, then wait on READY.
ReaderStart(p) ==
  /\ pc[p] = "idle"
  /\ HasOp(p)
  /\ Op(p).kind = "read"
  /\ IF byteLength % BYTES_PER_ELEMENT # 0
       THEN /\ Finish(p, Err("SharedArrayBuffer byteLength must be a multiple of 4", 0, 0))
            /\ UNCHANGED <<pc, loc, phase, req, yielded>>
       ELSE IF ChunkCapacity <= 0
       THEN /\ Finish(p, Err("SharedArrayBuffer too small for header", 0, 0))
            /\ UNCHANGED <<pc, loc, phase, req, yielded>>
       ELSE /\ loc' = [loc EXCEPT ![p] = EmptyLoc]
            /\ Goto(p, "wait")
            /\ Yield(p, "r_hs", READY)
            /\ UNCHANGED <<results, opIdx>>
  /\ UNCHANGED <<byteLength, written, header, payload, waiters, script, wres, stores,
                 last2>>

\* gen.next(handshakeResult): throw on "timed-out".
ReaderResumeHandshake(p) ==
  /\ pc[p] = "resume"
  /\ phase[p] = "r_hs"
  /\ IF wres[p] = "timed-out"
       THEN /\ Finish(p, Err("Handshake timeout", 0, 0))
            /\ Goto(p, "idle")
       ELSE /\ Goto(p, "r_hsSem")
            /\ UNCHANGED <<results, opIdx>>
  /\ UNCHANGED <<byteLength, written, yielded, header, payload, waiters, script, phase, req,
                 wres, loc, stores, last2>>

\* The semaphore is read after the initial wait but not compared.
ReadHandshakeSemaphoreUnchecked(p) ==
  /\ pc[p] = "r_hsSem"
  /\ Goto(p, "r_hsSize")
  /\ Touch(p, "read")
  /\ UNCHANGED <<byteLength, written, yielded, header, payload, waiters, script, opIdx, phase,
                 req, wres, loc, results, stores>>

\* if (header[SEMAPHORE] !== Semaphore.HANDSHAKE) throw
ReadHandshakeSemaphore(p) ==
  /\ pc[p] = "r_hsSem"
  /\ IF header[SEMAPHORE] # HANDSHAKE
       THEN /\ Finish(p, Err("Invalid handshake state", 0, 0))
            /\ Goto(p, "idle")
       ELSE /\ Goto(p, "r_hsSize")
            /\ UNCHANGED <<results, opIdx>>
  /\ Touch(p, "read")
  /\ UNCHANGED <<byteLength, written, yielded, header, payload, waiters, script, phase, req,
                 wres, loc, stores>>

\* const totalSize = header[Handshake.TOTAL_SIZE]
ReadTotalSize(p) ==
  /\ pc[p] = "r_hsSize"
  /\ loc' = [loc EXCEPT ![p].totalSize = header[TOTAL_SIZE]]
  /\ Touch(p, "read")
  /\ Goto(p, "r_hsChunks")
  /\ UNCHANGED <<byteLength, written, yielded, header, payload, waiters, script, opIdx, phase,
                 req, wres, results, stores>>

\* The handshake checks without the test for a zero size with chunks.
InvalidHandshakeNoZeroCheck(totalSize, totalChunks) ==
  \/ totalSize < 0
  \/ totalChunks < 0
  \/ totalSize > totalChunks * ChunkCapacity

\* The three handshake checks of readGenerator.
InvalidHandshake(totalSize, totalChunks) ==
  \/ totalSize < 0
  \/ totalChunks < 0
  \/ (totalSize = 0 /\ totalChunks # 0)
  \/ totalSize > totalChunks * ChunkCapacity

\* const totalChunks = header[Handshake.TOTAL_CHUNKS]; the checks; the buffer.
ReadTotalChunks(p) ==
  /\ pc[p] = "r_hsChunks"
  /\ LET totalChunks == header[TOTAL_CHUNKS]
     IN  IF InvalidHandshake(loc[p].totalSize, totalChunks)
           THEN /\ Finish(p, Err("Invalid handshake values", 0, 0))
                /\ Goto(p, "idle")
                /\ loc' = [loc EXCEPT ![p].totalChunks = totalChunks]
           ELSE /\ loc' = [loc EXCEPT ![p].totalChunks = totalChunks,
                                      ![p].data = Zeros(loc[p].totalSize),
                                      ![p].cover = Zeros(loc[p].totalSize)]
                /\ Goto(p, "r_hsStore")
                /\ UNCHANGED <<results, opIdx>>
  /\ Touch(p, "read")
  /\ UNCHANGED <<byteLength, written, yielded, header, payload, waiters, script, phase, req,
                 wres, stores>>

\* Atomics.store(header, SEMAPHORE, Semaphore.READY): the handshake is accepted.
AckHandshake(p) ==
  /\ pc[p] = "r_hsStore"
  /\ AtomicsStore(p, READY)
  /\ loc' = [loc EXCEPT ![p].acked = TRUE]
  /\ Goto(p, "r_hsNotify")
  /\ UNCHANGED <<byteLength, written, yielded, payload, waiters, script, opIdx, phase, req,
                 wres, results>>

\* Atomics.notify, then the loop test: yield for chunk 0 or return data.
NotifyHandshakeAck(p) ==
  /\ pc[p] = "r_hsNotify"
  /\ loc' = [loc EXCEPT ![p].i = 0]
  /\ IF 0 < loc[p].totalChunks
       THEN /\ AtomicsNotify(p, "wait")
            /\ Yield(p, "r_pl", READY)
            /\ UNCHANGED <<results, opIdx>>
       ELSE /\ AtomicsNotify(p, "idle")
            /\ Finish(p, Ok(loc[p].data))
            /\ UNCHANGED <<phase, req, yielded>>
  /\ UNCHANGED <<byteLength, written, header, payload, script, stores>>

\* The chunk wait response is not tested for "timed-out".
ReaderResumePayloadNoTimeout(p) ==
  /\ pc[p] = "resume"
  /\ phase[p] = "r_pl"
  /\ Goto(p, "r_plSem")
  /\ UNCHANGED <<byteLength, written, yielded, header, payload, waiters, script, opIdx, phase,
                 req, wres, loc, results, stores, last2>>

\* gen.next(chunkResult): throw on "timed-out".
ReaderResumePayload(p) ==
  /\ pc[p] = "resume"
  /\ phase[p] = "r_pl"
  /\ IF wres[p] = "timed-out"
       THEN /\ Finish(p, Err("Writer timeout waiting for chunk", loc[p].i, 0))
            /\ Goto(p, "idle")
       ELSE /\ Goto(p, "r_plSem")
            /\ UNCHANGED <<results, opIdx>>
  /\ UNCHANGED <<byteLength, written, yielded, header, payload, waiters, script, phase, req,
                 wres, loc, stores, last2>>

\* if (header[SEMAPHORE] !== Semaphore.PAYLOAD): the comparison.
ReadPayloadSemaphore(p) ==
  /\ pc[p] = "r_plSem"
  /\ Goto(p, IF header[SEMAPHORE] # PAYLOAD THEN "r_plName" ELSE "r_idx")
  /\ Touch(p, "read")
  /\ UNCHANGED <<byteLength, written, yielded, header, payload, waiters, script, opIdx, phase,
                 req, wres, loc, results, stores>>

\* throw new Error(`Expected payload header, received ${Semaphore[header[SEMAPHORE]]}`):
\* the message reads the semaphore a second time.
NamePayloadState(p) ==
  /\ pc[p] = "r_plName"
  /\ Finish(p, Err("Expected payload header, received", header[SEMAPHORE], 0))
  /\ Goto(p, "idle")
  /\ Touch(p, "read")
  /\ UNCHANGED <<byteLength, written, yielded, header, payload, waiters, script, phase, req,
                 wres, loc, stores>>

\* The chunk index is read but not compared with i.
ReadChunkIndexAny(p) ==
  /\ pc[p] = "r_idx"
  /\ loc' = [loc EXCEPT ![p].chunkIndex = header[CHUNK_INDEX]]
  /\ Goto(p, "r_off")
  /\ Touch(p, "read")
  /\ UNCHANGED <<byteLength, written, yielded, header, payload, waiters, script, opIdx, phase,
                 req, wres, results, stores>>

\* const chunkIndex = header[Header.CHUNK_INDEX]; if (i !== chunkIndex) throw
ReadChunkIndex(p) ==
  /\ pc[p] = "r_idx"
  /\ loc' = [loc EXCEPT ![p].chunkIndex = header[CHUNK_INDEX]]
  /\ IF loc[p].i # header[CHUNK_INDEX]
       THEN /\ Finish(p, Err("Reader integrity failure for chunk",
                              header[CHUNK_INDEX], loc[p].i))
            /\ Goto(p, "idle")
       ELSE /\ Goto(p, "r_off")
            /\ UNCHANGED <<results, opIdx>>
  /\ Touch(p, "read")
  /\ UNCHANGED <<byteLength, written, yielded, header, payload, waiters, script, phase, req,
                 wres, stores>>

\* const offset = header[Header.CHUNK_OFFSET]
ReadChunkOffset(p) ==
  /\ pc[p] = "r_off"
  /\ loc' = [loc EXCEPT ![p].offset = header[CHUNK_OFFSET]]
  /\ Touch(p, "read")
  /\ Goto(p, "r_size")
  /\ UNCHANGED <<byteLength, written, yielded, header, payload, waiters, script, opIdx, phase,
                 req, wres, results, stores>>

\* The chunk metadata check with size < 0 in place of size <= 0.
InvalidChunkZeroSize(offset, size, totalSize) ==
  \/ offset < 0
  \/ size < 0
  \/ size > ChunkCapacity
  \/ offset + size > totalSize

\* The chunk checks without the test of the chunk's end against totalSize.
InvalidChunkNoEndCheck(offset, size, totalSize) ==
  \/ offset < 0
  \/ size <= 0
  \/ size > ChunkCapacity

\* The chunk metadata check of readGenerator.
InvalidChunk(offset, size, totalSize) ==
  \/ offset < 0
  \/ size <= 0
  \/ size > ChunkCapacity
  \/ offset + size > totalSize

\* The metadata check with a reset of the semaphore on failure.
ReadChunkSizeResetting(p) ==
  /\ pc[p] = "r_size"
  /\ loc' = [loc EXCEPT ![p].size = header[CHUNK_SIZE]]
  /\ IF InvalidChunk(loc[p].offset, header[CHUNK_SIZE], loc[p].totalSize)
       THEN /\ Finish(p, Err("Invalid chunk metadata for chunk", loc[p].chunkIndex, 0))
            /\ Goto(p, "idle")
            /\ AtomicsStore(p, READY)
       ELSE /\ Goto(p, "r_copy")
            /\ Touch(p, "read")
            /\ UNCHANGED <<results, opIdx, header, stores>>
  /\ UNCHANGED <<byteLength, written, yielded, payload, waiters, script, phase, req,
                 wres>>

\* const size = header[Header.CHUNK_SIZE]; the metadata check.
ReadChunkSize(p) ==
  /\ pc[p] = "r_size"
  /\ loc' = [loc EXCEPT ![p].size = header[CHUNK_SIZE]]
  /\ IF InvalidChunk(loc[p].offset, header[CHUNK_SIZE], loc[p].totalSize)
       THEN /\ Finish(p, Err("Invalid chunk metadata for chunk", loc[p].chunkIndex, 0))
            /\ Goto(p, "idle")
       ELSE /\ Goto(p, "r_copy")
            /\ UNCHANGED <<results, opIdx>>
  /\ Touch(p, "read")
  /\ UNCHANGED <<byteLength, written, yielded, header, payload, waiters, script, phase, req,
                 wres, stores>>

\* data.set(payload.subarray(0, size), offset)
CopyChunk(p) ==
  /\ pc[p] = "r_copy"
  /\ loc' = [loc EXCEPT
               ![p].data = SetBytes(@, payload, 0, loc[p].size, loc[p].offset),
               ![p].copied = @ + 1,
               ![p].cover = Covered(@, loc[p].size, loc[p].offset)]
  /\ Touch(p, "read")
  /\ Goto(p, "r_plStore")
  /\ UNCHANGED <<byteLength, written, yielded, header, payload, waiters, script, opIdx, phase,
                 req, wres, results, stores>>

\* The chunk is acknowledged and the payload area is cleared as well.
AckChunkClearingPayload(p) ==
  /\ pc[p] = "r_plStore"
  /\ AtomicsStore(p, READY)
  /\ payload' = Zeros(Len(payload))
  /\ Goto(p, "r_plNotify")
  /\ UNCHANGED <<byteLength, written, yielded, waiters, script, opIdx, phase,
                 req, wres, loc, results>>

\* Atomics.store(header, SEMAPHORE, Semaphore.READY): the chunk is acknowledged.
AckChunk(p) ==
  /\ pc[p] = "r_plStore"
  /\ AtomicsStore(p, READY)
  /\ Goto(p, "r_plNotify")
  /\ UNCHANGED <<byteLength, written, yielded, payload, waiters, script, opIdx, phase, req,
                 wres, loc, results>>

\* Atomics.notify, i++, then the loop test: yield for the next chunk or return.
NotifyChunkAck(p) ==
  /\ pc[p] = "r_plNotify"
  /\ loc' = [loc EXCEPT ![p].i = @ + 1]
  /\ IF loc[p].i + 1 < loc[p].totalChunks
       THEN /\ AtomicsNotify(p, "wait")
            /\ Yield(p, "r_pl", READY)
            /\ UNCHANGED <<results, opIdx>>
       ELSE /\ AtomicsNotify(p, "idle")
            /\ Finish(p, Ok(loc[p].data))
            /\ UNCHANGED <<phase, req, yielded>>
  /\ UNCHANGED <<byteLength, written, header, payload, script, stores>>

\* ------------------------------------------------------ specifications

\* One statement of party p, no timeout and no abandoning.
Step(p) ==
  \/ AtomicsWait(p)
  \/ WriterStart(p)
  \/ WriteTotalSize(p)
  \/ WriteTotalChunks(p)
  \/ StoreHandshake(p)
  \/ NotifyHandshake(p)
  \/ WriterResumeHandshake(p)
  \/ StageChunk(p)
  \/ WriteChunkIndex(p)
  \/ WriteChunkOffset(p)
  \/ WriteChunkSize(p)
  \/ StorePayload(p)
  \/ NotifyPayload(p)
  \/ WriterResumePayload(p)
  \/ WriterFinallyStore(p)
  \/ WriterFinallyNotify(p)
  \/ ReaderStart(p)
  \/ ReaderResumeHandshake(p)
  \/ ReadHandshakeSemaphore(p)
  \/ ReadTotalSize(p)
  \/ ReadTotalChunks(p)
  \/ AckHandshake(p)
  \/ NotifyHandshakeAck(p)
  \/ ReaderResumePayload(p)
  \/ ReadPayloadSemaphore(p)
  \/ NamePayloadState(p)
  \/ ReadChunkIndex(p)
  \/ ReadChunkOffset(p)
  \/ ReadChunkSize(p)
  \/ CopyChunk(p)
  \/ AckChunk(p)
  \/ NotifyChunkAck(p)

\* Payload capacity of the region of the model.
Capacity == BYTES_PER_ELEMENT * PayloadWords

\* The payload lengths of the round-trip property: 0, 1, P-1, P, P+1, 5P+3.
Lengths == {0, 1, Capacity - 1, Capacity, Capacity + 1, 5 * Capacity + 3}

\* A payload of n bytes whose bytes differ from position to position.
Pattern(n, seed) == [k \in 1..n |-> (seed * k + seed) % 256]

\* A fresh region of len bytes (all zero, so the semaphore is READY) and two
\* idle parties.
InitRegionOf(len) ==
  /\ byteLength = len
  /\ header = [w \in 0..(HEADER_VALUES - 1) |-> 0]
  /\ payload = Zeros(len - HEADER_SIZE)
  /\ waiters = {}
  /\ opIdx = [p \in Parties |-> 1]
  /\ pc = [p \in Parties |-> "idle"]
  /\ phase = [p \in Parties |-> "none"]
  /\ req = [p \in Parties |-> NoRequest]
  /\ wres = [p \in Parties |-> "none"]
  /\ loc = [p \in Parties |-> EmptyLoc]
  /\ results = [p \in Parties |-> <<>>]
  /\ stores = <<>>
  /\ last2 = [p \in Parties |-> <<"none", "none">>]
  /\ yielded = [p \in Parties |-> <<>>]
  /\ written = [w \in 1..(HEADER_VALUES - 1) |-> "none"]

InitRegion == InitRegionOf(HEADER_SIZE + Capacity)

\* One transfer: A writes a payload, B reads.
InitSingle ==
  /\ InitRegion
  /\ \E n \in Lengths :
       script = [p \in Parties |->
                   IF p = "A" THEN <<WriteOp(Pattern(n, 1))>> ELSE <<ReadOp>>]

Next == \E p \in Parties : Step(p)

\* One transfer in which no wait times out.
Spec == InitSingle /\ [][Next]_vars

NextTimeout == \E p \in Parties : Step(p) \/ WaitTimeout(p)

\* One transfer in which any suspended wait may time out.
SpecTimeout == InitSingle /\ [][NextTimeout]_vars

\* One transfer with no timeout, over every payload length up to two chunks
\* and one byte, on regions of two payload capacities.
InitChunks ==
  \E w \in PayloadWords..(PayloadWords + 1) :
    /\ InitRegionOf(HEADER_SIZE + BYTES_PER_ELEMENT * w)
    /\ \E n \in 0..(2 * BYTES_PER_ELEMENT * w + 1) :
         script = [p \in Parties |->
                     IF p = "A" THEN <<WriteOp(Pattern(n, 1))>> ELSE <<ReadOp>>]

SpecChunks == InitChunks /\ [][Next]_vars

NextCancel == \E p \in Parties : Step(p) \/ WriterAbandon(p)

\* One transfer whose writer may be abandoned at any yielded wait request.
SpecCancel == InitSingle /\ [][NextCancel]_vars

\* The payload lengths of the two-transfer scenarios.
ReuseLengths == {0, 1, Capacity + 1}

\* Two transfers in the same direction: A writes twice, B reads twice.
InitReuse ==
  /\ InitRegion
  /\ \E n1 \in ReuseLengths, n2 \in ReuseLengths :
       script = [p \in Parties |->
                   IF p = "A"
                     THEN <<WriteOp(Pattern(n1, 1)), WriteOp(Pattern(n2, 2))>>
                     ELSE <<ReadOp, ReadOp>>]

SpecReuse == InitReuse /\ [][Next]_vars

\* README "Complete Example": A writes then reads, B reads then writes.
InitReverse ==
  /\ InitRegion
  /\ \E n1 \in ReuseLengths, n2 \in ReuseLengths :
       script = [p \in Parties |->
                   IF p = "A"
                     THEN <<WriteOp(Pattern(n1, 1)), ReadOp>>
                     ELSE <<ReadOp, WriteOp(Pattern(n2, 2))>>]

SpecReverse == InitReverse /\ [][Next]_vars

\* Region byte lengths around the header length and around a multiple of 4.
SetupLengths ==
  {HEADER_SIZE - 4, HEADER_SIZE - 3, HEADER_SIZE, HEADER_SIZE + 1,
   HEADER_SIZE + 2, HEADER_SIZE + 3, HEADER_SIZE + Capacity,
   HEADER_SIZE + Capacity + 1}

\* One transfer on a region of any of these byte lengths.
InitSetup ==
  \E len \in SetupLengths :
    /\ InitRegionOf(len)
    /\ \E n \in ReuseLengths :
         script = [p \in Parties |->
                     IF p = "A" THEN <<WriteOp(Pattern(n, 1))>> ELSE <<ReadOp>>]

SpecSetup == InitSetup /\ [][Next]_vars

\* One transfer with no timeout in which each party that can take a step
\* eventually takes one (each thread keeps running).
SpecFair == Spec /\ \A p \in Parties : WF_vars(Step(p))

\* A second call is made only by a fresh pair: once both first calls ended.
FreshPair(p) == (pc[p] = "idle" /\ opIdx[p] = 2) => \A q \in Parties : opIdx[q] = 2

\* Two transfers on one region: in the first any suspended wait may time out,
\* the second begins after both parties of the first have terminated and has
\* no timeout.
NextRecover ==
  \E p \in Parties :
    \/ Step(p) /\ FreshPair(p)
    \/ WaitTimeout(p) /\ opIdx[p] = 1

SpecRecover == InitReuse /\ [][NextRecover]_vars

\* The timeout options given to a call: none, or { timeout: 100 }.
TimeoutOptions == {0, 100}

\* A call with the options it was given (0 stands for no options).
WithOptions(op, timeout) ==
  IF timeout = 0 THEN op
  ELSE [kind |-> op.kind, data |-> op.data, timeout |-> timeout]

\* One transfer, each call with or without a timeout option.
InitOptions ==
  /\ InitRegion
  /\ \E n \in ReuseLengths, tw \in TimeoutOptions, tr \in TimeoutOptions :
       script = [p \in Parties |->
                   IF p = "A" THEN <<WithOptions(WriteOp(Pattern(n, 1)), tw)>>
                   ELSE <<WithOptions(ReadOp, tr)>>]

\* One transfer in which no wait times out, whatever timeout was configured.
SpecOptions == InitOptions /\ [][Next]_vars

\* ------------------------------------------------- the awaitable drains

\* A call with its drain named: "sync" is writeSync / readSync (Atomics.wait),
\* "async" is write / read (Atomics.waitAsync, awaited).
WriteVia(drain, data) == [kind |-> "write", data |-> data, drain |-> drain]

ReadVia(drain) == [kind |-> "read", data |-> <<>>, drain |-> drain]

\* write / read: Atomics.waitAsync(request.target, request.index,
\* request.value, request.timeout). A different value gives the result
\* "not-equal" at once, an equal one a pending promise.
AtomicsWaitAsync(p) ==
  /\ pc[p] = "wait"
  /\ Op(p).drain = "async"
  /\ IF header[req[p].index] # req[p].value
       THEN /\ wres' = [wres EXCEPT ![p] = "not-equal"]
            /\ Goto(p, "await")
            /\ UNCHANGED waiters
       ELSE /\ waiters' = waiters \cup {p}
            /\ Goto(p, "sleep")
            /\ UNCHANGED wres
  /\ Touch(p, "wait")
  /\ UNCHANGED <<byteLength, written, yielded, header, payload, script, opIdx, phase, req, loc,
                 results, stores>>

\* The awaited value is handed to gen.next as "ok", whatever it was.
AwaitValueAsOk(p) ==
  /\ pc[p] = "await"
  /\ wres' = [wres EXCEPT ![p] = "ok"]
  /\ Goto(p, "resume")
  /\ UNCHANGED <<byteLength, written, yielded, header, payload, waiters, script, opIdx, phase,
                 req, loc, results, stores, last2>>

\* const waitResult = await (...).value: the continuation of the await runs
\* and hands the value to gen.next.
AwaitValue(p) ==
  /\ pc[p] = "await"
  /\ Goto(p, "resume")
  /\ UNCHANGED <<byteLength, written, yielded, header, payload, waiters, script, opIdx, phase,
                 req, wres, loc, results, stores, last2>>

\* One transfer, each side through either of its two drains.
InitDrains ==
  /\ InitRegion
  /\ \E n \in ReuseLengths, dw \in {"sync", "async"}, dr \in {"sync", "async"} :
       script = [p \in Parties |->
                   IF p = "A" THEN <<WriteVia(dw, Pattern(n, 1))>>
                   ELSE <<ReadVia(dr)>>]

NextDrains ==
  \E p \in Parties :
    \/ Step(p) /\ (pc[p] = "wait" => Op(p).drain = "sync")
    \/ AtomicsWaitAsync(p)
    \/ AwaitValue(p)
    \/ WaitTimeout(p)

\* One transfer through any pair of drains; any suspended wait may time out.
SpecDrains == InitDrains /\ [][NextDrains]_vars

\* ------------------------------------------------ overlapping transfers

\* The writer makes two calls on one region, the reader one: the writer may
\* have given up the first transfer and begun the second while the reader is
\* still inside its read.
InitOverlap ==
  /\ InitRegion
  /\ \E n1 \in ReuseLengths, n2 \in ReuseLengths :
       script = [p \in Parties |->
                   IF p = "A"
                     THEN <<WriteOp(Pattern(n1, 1)), WriteOp(Pattern(n2, 2))>>
                     ELSE <<ReadOp>>]

\* Any suspended wait may time out, in either transfer.
SpecOverlap == InitOverlap /\ [][NextTimeout]_vars

\* ------------------------------------------- lengths beyond 2^31 - 1
\* A Uint8Array can be longer than an Int32Array element can hold. Such a
\* length n is kept as two limbs, n = hi * 2^16 + lo, and the writer's
\* arithmetic on it is carried out limb by limb; the header words stay plain
\* 32-bit integers.

Radix == 2 ^ 16

\* The payload lengths of the large transfers (hi * 2^16 + lo).
LargeLengths ==
  {[hi |-> h, lo |-> l] :
     h \in {0, 1, 32767, 32768, 32769, 49152, 65535},
     l \in {0, 1, ChunkCapacity - 1, ChunkCapacity, ChunkCapacity + 1,
            Radix - 1}}

\* A length n stored into an Int32Array element: n up to 2^31 - 1 unchanged,
\* n - 2^32 above it (n < 2^32).
ToInt32Large(n) ==
  IF n.hi < Radix \div 2 THEN n.hi * Radix + n.lo
  ELSE (n.hi - Radix) * Radix + n.lo

\* Math.ceil(n / chunkSize) for a chunkSize that divides 2^16.
MathCeilDivLarge(n) ==
  n.hi * (Radix \div ChunkCapacity) + MathCeilDiv(n.lo, ChunkCapacity)

\* totalChunks * chunkSize as a double holds it (no wrap), in two limbs.
TimesChunkSize(totalChunks) ==
  [hi |-> totalChunks \div (Radix \div ChunkCapacity),
   lo |-> (totalChunks % (Radix \div ChunkCapacity)) * ChunkCapacity]

\* totalSize > totalChunks * chunkSize for totalSize, totalChunks >= 0.
ExceedsChunks(totalSize, totalChunks) ==
  LET product == TimesChunkSize(totalChunks)
  IN  \/ totalSize \div Radix > product.hi
      \/ /\ totalSize \div Radix = product.hi
         /\ totalSize % Radix > product.lo

\* The three handshake checks of readGenerator, the product not wrapping.
InvalidHandshakeLarge(totalSize, totalChunks) ==
  \/ totalSize < 0
  \/ totalChunks < 0
  \/ (totalSize = 0 /\ totalChunks # 0)
  \/ ExceedsChunks(totalSize, totalChunks)

\* writeSync(data, buffer) with data.length = n
WriteLargeOp(n) == [kind |-> "write", data |-> <<>>, length |-> n]

\* gen.next() up to the first header write, for a length in two limbs.
WriterStartLarge(p) ==
  /\ pc[p] = "idle"
  /\ HasOp(p)
  /\ Op(p).kind = "write"
  /\ byteLength % BYTES_PER_ELEMENT = 0
  /\ ChunkCapacity > 0
  /\ loc' = [loc EXCEPT ![p] =
               [EmptyLoc EXCEPT
                  !.totalSize = Op(p).length,
                  !.totalChunks = MathCeilDivLarge(Op(p).length)]]
  /\ Goto(p, "w_hsSize")
  /\ UNCHANGED <<byteLength, written, yielded, header, payload, waiters, script, phase,
                 req, wres, stores, last2, results, opIdx>>

\* header[Handshake.TOTAL_SIZE] = totalSize
WriteTotalSizeLarge(p) ==
  /\ pc[p] = "w_hsSize"
  /\ header' = [header EXCEPT ![TOTAL_SIZE] = ToInt32Large(loc[p].totalSize)]
  /\ written' = [written EXCEPT ![TOTAL_SIZE] = "handshake"]
  /\ Touch(p, "write")
  /\ Goto(p, "w_hsChunks")
  /\ UNCHANGED <<byteLength, yielded, payload, waiters, script, opIdx, phase,
                 req, wres, loc, results, stores>>

\* const totalChunks = header[Handshake.TOTAL_CHUNKS]; the checks. The
\* output buffer is not materialised: the reader is followed up to here.
ReadTotalChunksLarge(p) ==
  /\ pc[p] = "r_hsChunks"
  /\ LET totalChunks == header[TOTAL_CHUNKS]
     IN  /\ loc' = [loc EXCEPT ![p].totalChunks = totalChunks]
         /\ IF InvalidHandshakeLarge(loc[p].totalSize, totalChunks)
              THEN /\ Finish(p, Err("Invalid handshake values", 0, 0))
                   /\ Goto(p, "idle")
              ELSE /\ Goto(p, "r_hsStore")
                   /\ UNCHANGED <<results, opIdx>>
  /\ Touch(p, "read")
  /\ UNCHANGED <<byteLength, written, yielded, header, payload, waiters, script, phase,
                 req, wres, stores>>

\* One writer of a large payload and one reader on a fresh region.
InitLarge ==
  /\ InitRegion
  /\ \E n \in LargeLengths :
       script = [p \in Parties |->
                   IF p = "A" THEN <<WriteLargeOp(n)>> ELSE <<ReadOp>>]

\* The handshake of the transfer: the writer up to its first wait, the reader
\* up to the end of its handshake checks.
NextLarge ==
  \/ WriterStartLarge("A")
  \/ WriteTotalSizeLarge("A")
  \/ WriteTotalChunks("A")
  \/ StoreHandshake("A")
  \/ NotifyHandshake("A")
  \/ ReaderStart("B")
  \/ \E p \in Parties : AtomicsWait(p)
  \/ ReaderResumeHandshake("B")
  \/ ReadHandshakeSemaphore("B")
  \/ ReadTotalSize("B")
  \/ ReadTotalChunksLarge("B")

SpecLarge == InitLarge /\ [][NextLarge]_vars

\* ---------------------------------------------- a generator driven by hand

\* One statement of readGenerator run by party p.
ReaderStep(p) ==
  \/ ReaderStart(p)
  \/ ReaderResumeHandshake(p)
  \/ ReadHandshakeSemaphore(p)
  \/ ReadTotalSize(p)
  \/ ReadTotalChunks(p)
  \/ AckHandshake(p)
  \/ NotifyHandshakeAck(p)
  \/ ReaderResumePayload(p)
  \/ ReadPayloadSemaphore(p)
  \/ NamePayloadState(p)
  \/ ReadChunkIndex(p)
  \/ ReadChunkOffset(p)
  \/ ReadChunkSize(p)
  \/ CopyChunk(p)
  \/ AckChunk(p)
  \/ NotifyChunkAck(p)

\* The values the peer of a driven reader puts into header words 1-3.
HeaderValues == {-1, 0, 1, Capacity, Capacity + 1}

WaitResponses == {"ok", "not-equal", "timed-out"}

\* header[w] = v by the peer of p, while p's generator is suspended at a yield.
PeerSetHeader(p) ==
  /\ pc[p] = "wait"
  /\ \E w \in 0..(HEADER_VALUES - 1) :
       \E v \in IF w = SEMAPHORE THEN {READY, HANDSHAKE, PAYLOAD} ELSE HeaderValues :
         /\ header[w] # v
         /\ header' = [header EXCEPT ![w] = v]
  /\ UNCHANGED <<byteLength, written, yielded, payload, waiters, script, opIdx, pc, phase, req,
                 wres, loc, results, stores, last2>>

\* payload.set(data, 0) by the peer of p, while p's generator is suspended.
PeerSetPayload(p) ==
  /\ pc[p] = "wait"
  /\ payload = Zeros(ChunkCapacity)
  /\ payload' = Pattern(ChunkCapacity, 3)
  /\ UNCHANGED <<byteLength, written, yielded, header, waiters, script, opIdx, pc, phase, req,
                 wres, loc, results, stores, last2>>

\* gen.next(r): the caller resumes p's generator with a wait response it chose.
GenNext(p) ==
  /\ pc[p] = "wait"
  /\ \E r \in WaitResponses : wres' = [wres EXCEPT ![p] = r]
  /\ Goto(p, "resume")
  /\ UNCHANGED <<byteLength, written, yielded, header, payload, waiters, script, opIdx, phase,
                 req, loc, results, stores, last2>>

\* The statements of writeGenerator between two yields.
WriterStep(p) ==
  \/ WriterStart(p)
  \/ WriteTotalSize(p)
  \/ WriteTotalChunks(p)
  \/ StoreHandshake(p)
  \/ NotifyHandshake(p)
  \/ WriterResumeHandshake(p)
  \/ StageChunk(p)
  \/ WriteChunkIndex(p)
  \/ WriteChunkOffset(p)
  \/ WriteChunkSize(p)
  \/ StorePayload(p)
  \/ NotifyPayload(p)
  \/ WriterResumePayload(p)
  \/ WriterFinallyStore(p)
  \/ WriterFinallyNotify(p)

\* B runs readGenerator, driven by hand; nobody writes.
InitDriven ==
  /\ InitRegion
  /\ script = [p \in Parties |-> IF p = "B" THEN <<ReadOp>> ELSE <<>>]

NextDriven ==
  \/ ReaderStep("B")
  \/ PeerSetHeader("B")
  \/ PeerSetPayload("B")
  \/ GenNext("B")

\* readGenerator against every header its peer can publish.
SpecDriven == InitDriven /\ [][NextDriven]_vars

\* Either generator alone on a fresh region, driven by hand: readGenerator
\* against every header its peer can publish, or writeGenerator on a payload
\* of up to two chunks and one byte with every wait response.
InitCopies ==
  /\ InitRegion
  /\ \/ script = [p \in Parties |-> IF p = "B" THEN <<ReadOp>> ELSE <<>>]
     \/ \E n \in 0..(2 * Capacity + 1) :
          script = [p \in Parties |->
                      IF p = "A" THEN <<WriteOp(Pattern(n, 1))>> ELSE <<>>]

NextCopies ==
  \/ NextDriven
  \/ WriterStep("A")
  \/ GenNext("A")

SpecCopies == InitCopies /\ [][NextCopies]_vars

\* ------------------------------------------------------------ claims

Writer == "A"

Reader == "B"

\* The payload given to the writer of the single transfer.
X == script[Writer][1].data

Done(p) == Len(results[p]) >= 1

\* C1: round trip. In a single transfer with no timeout, when the reader has
\* terminated it has returned a buffer equal to the writer's payload, byte for
\* byte, for every length in Lengths and in every interleaving.
C1_RoundTrip == Done(Reader) => results[Reader][1] = Ok(X)

\* C2: writer cleanup. Once the writer has terminated (normally, by the
\* handshake timeout or by a chunk timeout) its last two accesses to the region
\* were the store of READY and the notify, and the semaphore is READY, also
\* after the reader of the transfer has terminated.
C2_WriterCleanup ==
  Done(Writer) =>
    /\ header[SEMAPHORE] = READY
    /\ last2[Writer] = <<"store READY", "notify">>

\* The writer ended with a chunk timeout and the reader has terminated too.
C2_Witness ==
  /\ Done(Writer)
  /\ Done(Reader)
  /\ results[Writer][1].msg = "Reader timeout on chunk"
  /\ results[Writer][1].a >= 1

\* C3: reuse in the same direction. With two writes by A and two reads by B and
\* no timeout, after a first transfer that delivered X1 without error, the
\* second read returns X2 and the second write completes without error.
C3_Reuse ==
  (/\ Len(results[Reader]) >= 1
   /\ results[Reader][1] = Ok(script[Writer][1].data)
   /\ Len(results[Writer]) >= 1 => results[Writer][1].kind = "ok")
  =>
  /\ Len(results[Reader]) >= 2 => results[Reader][2] = Ok(script[Writer][2].data)
  /\ Len(results[Writer]) >= 2 => results[Writer][2].kind = "ok"

\* C4: reuse with the roles reversed. A writes X then reads, B reads then
\* writes Y, no timeout: once B's read has returned X and A's write has
\* completed without error, A's read returns Y and B's write completes without
\* error (A's cleanup store does not destroy the handshake of the reply).
C4_Reverse ==
  (/\ Len(results["B"]) >= 1
   /\ results["B"][1] = Ok(script["A"][1].data)
   /\ Len(results["A"]) >= 1
   /\ results["A"][1].kind = "ok")
  =>
  /\ Len(results["A"]) >= 2 => results["A"][2] = Ok(script["B"][2].data)
  /\ Len(results["B"]) >= 2 => results["B"][2].kind = "ok"
  /\ \A k \in 1..(Len(stores) - 1) :
       ~(/\ stores[k] = <<"B", HANDSHAKE, "w_hsStore">>
         /\ stores[k + 1] = <<"A", READY, "w_finStore">>)

\* C5: writer success means delivery. A writer that completed without error
\* did so after the reader acknowledged the handshake and copied every chunk;
\* any other writer outcome is one of the two timeout errors.
C5_WriterSuccessMeansDelivery ==
  Done(Writer) =>
    IF results[Writer][1].kind = "ok"
      THEN /\ loc[Reader].acked
           /\ loc[Reader].copied = loc[Writer].totalChunks
      ELSE /\ results[Writer][1].kind = "error"
           /\ results[Writer][1].msg \in
                {"Reader handshake timeout", "Reader timeout on chunk"}

\* The writer is between the first and the last write of header words 1-3 or
\* of the payload area for one handshake or chunk (its next statement writes).
WriterWriting ==
  pc[Writer] \in {"w_hsSize", "w_hsChunks", "w_set", "w_idx", "w_off", "w_size"}

\* The reader is between the first and the last read of header words 1-3 or of
\* the payload area for one handshake or chunk (its next statement reads).
ReaderReading ==
  pc[Reader] \in {"r_hsSize", "r_hsChunks", "r_idx", "r_off", "r_size", "r_copy"}

\* C6: mutual exclusion. In no reachable state of a single transfer (timeouts
\* allowed) is the writer writing header words 1-3 or the payload area while
\* the reader is reading them.
C6_MutualExclusion == ~(WriterWriting /\ ReaderReading)

\* Number of chunks the reader has acknowledged (READY stored in the loop).
ChunksAcked ==
  Cardinality({k \in 1..Len(stores) :
                 stores[k][1] = Reader /\ stores[k][3] = "r_plStore"})

\* C7: back-pressure. PAYLOAD is stored only after the reader acknowledged the
\* handshake; chunk i+1 is put into the payload area only after the reader
\* copied and acknowledged chunk i; the chunks the reader copied are the
\* chunks 0, 1, 2, ... of the payload, in order, each once.
C7_BackPressure ==
  /\ (\E k \in 1..Len(stores) : stores[k][2] = PAYLOAD) => loc[Reader].acked
  /\ loc[Writer].staged <= loc[Reader].copied + 1
  /\ loc[Writer].staged <= ChunksAcked + 1
  /\ pc[Reader] \in {"r_plStore", "r_plNotify", "wait", "sleep", "resume", "idle"} =>
       \A k \in 1..Min(loc[Reader].copied * ChunkCapacity, Len(loc[Reader].data)) :
         k <= Len(X) /\ loc[Reader].data[k] = X[k]

\* C8: cancellation. When the caller abandoned the writer generator at a
\* yielded wait request, the generator ended with the store of READY and the
\* notify of its cleanup, and the semaphore is READY.
C8_CancelCleanup ==
  /\ loc[Writer].err = Cancelled =>
       pc[Writer] \in {"w_finStore", "w_finNotify", "idle"}
  /\ (Done(Writer) /\ results[Writer][1] = Cancelled) =>
       /\ header[SEMAPHORE] = READY
       /\ last2[Writer] = <<"store READY", "notify">>

\* The writer was abandoned at the wait for its second chunk and has ended.
C8_Witness ==
  /\ Done(Writer)
  /\ results[Writer][1] = Cancelled
  /\ phase[Writer] = "w_pl"
  /\ loc[Writer].staged = 2

\* The writer is suspended at its handshake yield.
AtHandshakeYield ==
  /\ phase[Writer] = "w_hs"
  /\ pc[Writer] \in {"wait", "sleep", "resume"}
  /\ loc[Writer].err.kind = "ok"

C10_StagedChunk ==
  header[SEMAPHORE] = PAYLOAD =>
    LET i == loc[Writer].staged - 1
        P == ChunkCapacity
        L == Len(X)
    IN  /\ header[CHUNK_INDEX] = i
        /\ header[CHUNK_OFFSET] = i * P
        /\ header[CHUNK_SIZE] = Min(P, L - i * P)
        /\ 0 <= header[CHUNK_OFFSET]
        /\ 0 < header[CHUNK_SIZE]
        /\ header[CHUNK_SIZE] <= P
        /\ header[CHUNK_OFFSET] + header[CHUNK_SIZE] <= L
        /\ i = ChunksAcked
        /\ \A k \in 1..header[CHUNK_SIZE] :
             k <= Len(payload) /\ header[CHUNK_OFFSET] + k <= L
               /\ payload[k] = X[header[CHUNK_OFFSET] + k]

\* The reader leaves the statement stmt in this step.
ReaderLeaves(stmt) == pc[Reader] = stmt /\ pc'[Reader] # stmt

\* The reader's call fails in this step with the error e.
ReaderThrows(e) ==
  /\ results' = [results EXCEPT ![Reader] = Append(@, e)]
  /\ pc'[Reader] = "idle"

\* C11: handshake validation. Having read totalSize and totalChunks after a
\* wake on HANDSHAKE, the reader fails with 'Invalid handshake values' exactly
\* when totalSize < 0, or totalChunks < 0, or totalSize = 0 with totalChunks
\* # 0, or totalSize > totalChunks * P, without storing; for every other pair
\* it goes on and its next access stores READY.
C11_HandshakeValidation ==
  /\ [][ReaderLeaves("r_hsChunks") =>
          LET ts == loc[Reader].totalSize
              tc == header[TOTAL_CHUNKS]
              P == byteLength - HEADER_SIZE
          IN  IF ts < 0 \/ tc < 0 \/ (ts = 0 /\ tc # 0) \/ ts > tc * P
                THEN /\ ReaderThrows(Err("Invalid handshake values", 0, 0))
                     /\ stores' = stores
                     /\ header' = header
                ELSE /\ pc'[Reader] = "r_hsStore"
                     /\ results' = results
                     /\ loc'[Reader].data = [k \in 1..ts |-> 0]]_vars
  /\ [][ReaderLeaves("r_hsStore") =>
          /\ header'[SEMAPHORE] = READY
          /\ stores' = Append(stores, <<Reader, READY, "r_hsStore">>)]_vars
  /\ [][ReaderLeaves("r_hsSize") => header[SEMAPHORE] = HANDSHAKE]_vars
  /\ []((Done(Reader) /\ results[Reader][1].msg = "Invalid handshake values")
          => ~loc[Reader].acked)

\* The reader rejected a handshake whose two values are positive but whose
\* size does not fit into its chunks.
C11_Witness ==
  /\ Done(Reader)
  /\ results[Reader][1].msg = "Invalid handshake values"
  /\ loc[Reader].totalSize = ChunkCapacity + 1
  /\ loc[Reader].totalChunks = 1

\* C12: chunk metadata validation. For a chunk whose index matched, the reader
\* fails with 'Invalid chunk metadata for chunk i' exactly when chunkOffset <
\* 0, or chunkSize <= 0, or chunkSize > P, or chunkOffset + chunkSize >
\* totalSize, and then its output buffer is unchanged; otherwise it copies the
\* first chunkSize bytes of the payload area to output offset chunkOffset and
\* changes no other byte of the output.
C12_ChunkValidation ==
  /\ [][ReaderLeaves("r_size") =>
          LET off == loc[Reader].offset
              sz == header[CHUNK_SIZE]
              P == byteLength - HEADER_SIZE
          IN  IF off < 0 \/ sz <= 0 \/ sz > P \/ off + sz > loc[Reader].totalSize
                THEN /\ ReaderThrows(Err("Invalid chunk metadata for chunk",
                                         loc[Reader].i, 0))
                     /\ loc'[Reader].data = loc[Reader].data
                     /\ loc'[Reader].copied = loc[Reader].copied
                ELSE /\ pc'[Reader] = "r_copy"
                     /\ loc'[Reader].size = sz
                     /\ results' = results]_vars
  /\ [][ReaderLeaves("r_copy") =>
          LET off == loc[Reader].offset
              sz == loc[Reader].size
          IN  /\ Len(loc'[Reader].data) = loc[Reader].totalSize
              /\ \A k \in 1..loc[Reader].totalSize :
                   loc'[Reader].data[k] =
                     IF off + 1 <= k /\ k <= off + sz
                       THEN payload[k - off]
                       ELSE loc[Reader].data[k]]_vars
  /\ [][(results'[Reader] # results[Reader]
           /\ results'[Reader][1].msg = "Invalid chunk metadata for chunk")
          => pc[Reader] = "r_size"]_vars

\* The reader copied a full payload area to output offset 1.
C12_Witness ==
  /\ pc[Reader] = "r_plStore"
  /\ loc[Reader].offset = 1
  /\ loc[Reader].size = ChunkCapacity
  /\ loc[Reader].data[1] = 0
  /\ loc[Reader].data[2] = payload[1]
  /\ payload[1] # 0

\* C13: strict chunk order. At its i-th chunk step the reader goes on only if
\* header chunkIndex = i; any other value makes it fail with 'Reader integrity
\* failure for chunk <received> expected <i>' before it reads offset or size,
\* without copying or storing; so the indices it accepts are 0, 1, 2, ... with
\* no gap and no repeat (the index accepted is the number of chunks copied).
C13_StrictOrder ==
  /\ [][ReaderLeaves("r_idx") =>
          IF header[CHUNK_INDEX] # loc[Reader].i
            THEN /\ ReaderThrows(Err("Reader integrity failure for chunk",
                                     header[CHUNK_INDEX], loc[Reader].i))
                 /\ loc'[Reader].offset = loc[Reader].offset
                 /\ loc'[Reader].size = loc[Reader].size
                 /\ loc'[Reader].data = loc[Reader].data
                 /\ loc'[Reader].copied = loc[Reader].copied
                 /\ stores' = stores
                 /\ header' = header
            ELSE /\ pc'[Reader] = "r_off"
                 /\ results' = results]_vars
  /\ [](pc[Reader] \in {"r_off", "r_size", "r_copy"} =>
          /\ loc[Reader].chunkIndex = loc[Reader].i
          /\ loc[Reader].chunkIndex = loc[Reader].copied)
  /\ [](pc[Reader] \in {"r_plStore", "r_plNotify"} =>
          /\ loc[Reader].chunkIndex = loc[Reader].i
          /\ loc[Reader].chunkIndex = loc[Reader].copied - 1)

\* The reader accepted chunk 0 and then rejected a repeated index 0.
C13_Witness ==
  /\ Done(Reader)
  /\ results[Reader][1] = Err("Reader integrity failure for chunk", 0, 1)
  /\ loc[Reader].copied = 1

\* C14: reader state checks. Resumed from its initial wait with a response
\* other than timed-out, the reader fails with 'Invalid handshake state' when
\* the semaphore is not HANDSHAKE; resumed from a chunk wait with a response
\* other than timed-out, it fails with 'Expected payload header, received
\* <state>' when the semaphore is not PAYLOAD; in both cases it reads no
\* header total and no chunk field, copies nothing and stores nothing.
C14_StateChecks ==
  /\ [](pc[Reader] \in {"r_hsSem", "r_plSem"} => wres[Reader] # "timed-out")
  /\ [][(pc[Reader] = "resume" /\ pc'[Reader] # "resume"
           /\ wres[Reader] # "timed-out")
          => pc'[Reader] = (IF phase[Reader] = "r_hs" THEN "r_hsSem" ELSE "r_plSem")]_vars
  /\ [][ReaderLeaves("r_hsSem") =>
          IF header[SEMAPHORE] # HANDSHAKE
            THEN /\ ReaderThrows(Err("Invalid handshake state", 0, 0))
                 /\ loc' = loc
                 /\ stores' = stores
                 /\ header' = header
            ELSE /\ pc'[Reader] = "r_hsSize"
                 /\ results' = results]_vars
  /\ [][ReaderLeaves("r_plSem") =>
          /\ pc'[Reader] = (IF header[SEMAPHORE] # PAYLOAD THEN "r_plName" ELSE "r_idx")
          /\ loc' = loc
          /\ results' = results]_vars
  /\ [][ReaderLeaves("r_plName") =>
          /\ \E name \in {READY, HANDSHAKE, PAYLOAD} :
               ReaderThrows(Err("Expected payload header, received", name, 0))
          /\ loc' = loc
          /\ stores' = stores
          /\ header' = header]_vars

\* After one copied chunk the reader was resumed with "ok" while the semaphore
\* was HANDSHAKE, and failed naming that state.
C14_Witness ==
  /\ Done(Reader)
  /\ results[Reader][1] = Err("Expected payload header, received", HANDSHAKE, 0)
  /\ wres[Reader] = "ok"
  /\ loc[Reader].copied = 1

\* Party p makes the first step of its generator in this step.
Starts(p) ==
  /\ pc[p] = "idle"
  /\ pc'[p] # "idle" \/ results'[p] # results[p]

\* The region and the record of accesses to it are as they were.
RegionUntouched ==
  /\ header' = header
  /\ payload' = payload
  /\ stores' = stores
  /\ last2' = last2

\* C15: setup errors. On its first step writeGenerator, and likewise
\* readGenerator, rejects a region whose byte length is not a multiple of 4,
\* and otherwise one whose byte length is at most 16, each with its own
\* message, without having read or written any word of the region.
C15_SetupErrors ==
  /\ [][\A p \in Parties :
           Starts(p) =>
             IF byteLength % 4 # 0
               THEN /\ results'[p] = Append(results[p],
                          Err("SharedArrayBuffer byteLength must be a multiple of 4", 0, 0))
                    /\ RegionUntouched
               ELSE IF byteLength <= 16
               THEN /\ results'[p] = Append(results[p],
                          Err("SharedArrayBuffer too small for header", 0, 0))
                    /\ RegionUntouched
               ELSE results' = results]_vars
  /\ []((byteLength % 4 # 0 \/ byteLength <= 16) =>
          /\ \A w \in 0..3 : header[w] = 0
          /\ stores = <<>>
          /\ \A p \in Parties : last2[p] = <<"none", "none">>)

\* On a region of exactly the header length both calls ended with the
\* too-small error.
C15_Witness ==
  /\ byteLength = 16
  /\ Done(Writer)
  /\ Done(Reader)
  /\ results[Writer][1].msg = "SharedArrayBuffer too small for header"
  /\ results[Reader][1].msg = "SharedArrayBuffer too small for header"

\* Party p's generator is resumed in this step with the response "timed-out".
ResumedTimedOut(p) ==
  /\ pc[p] = "resume"
  /\ pc'[p] # "resume"
  /\ wres[p] = "timed-out"

\* C16: writer timeouts. Resumed with timed-out at its handshake wait the
\* writer fails with 'Reader handshake timeout' and has staged no chunk;
\* resumed with timed-out at the wait for a chunk it fails with 'Reader
\* timeout on chunk i/(totalChunks-1)', i being the chunk it staged last;
\* after either error it stages no further chunk, runs its cleanup and ends
\* with that error.
C16_WriterTimeouts ==
  /\ [][ResumedTimedOut(Writer) =>
          /\ pc'[Writer] = "w_finStore"
          /\ IF phase[Writer] = "w_hs"
               THEN /\ loc'[Writer].err = Err("Reader handshake timeout", 0, 0)
                    /\ loc[Writer].staged = 0
               ELSE loc'[Writer].err =
                      Err("Reader timeout on chunk", loc[Writer].staged - 1,
                          ((Len(X) + ChunkCapacity - 1) \div ChunkCapacity) - 1)]_vars
  /\ [][loc[Writer].err.kind = "error" =>
          /\ loc'[Writer].staged = loc[Writer].staged
          /\ loc'[Writer].err = loc[Writer].err
          /\ pc'[Writer] \in {"w_finStore", "w_finNotify", "idle"}]_vars
  /\ [](Done(Writer) => results[Writer][1] = loc[Writer].err)

\* The writer of a two-chunk payload timed out waiting for the
\* acknowledgment of chunk 1.
C16_Witness ==
  /\ Done(Writer)
  /\ results[Writer][1] = Err("Reader timeout on chunk", 1, 1)
  /\ loc[Writer].staged = 2

\* C17: reader timeouts. Resumed with timed-out at its initial wait the reader
\* fails with 'Handshake timeout' without any access to the header; resumed
\* with timed-out at the wait for a chunk it fails with 'Writer timeout
\* waiting for chunk i', i being the number of chunks it has copied, without
\* storing to the semaphore.
C17_ReaderTimeouts ==
  [][ResumedTimedOut(Reader) =>
       /\ stores' = stores
       /\ header' = header
       /\ last2'[Reader] = last2[Reader]
       /\ loc'[Reader] = loc[Reader]
       /\ IF phase[Reader] = "r_hs"
            THEN /\ ReaderThrows(Err("Handshake timeout", 0, 0))
                 /\ last2[Reader] = <<"none", "wait">>
            ELSE ReaderThrows(Err("Writer timeout waiting for chunk",
                                  loc[Reader].copied, 0))]_vars

\* The reader copied chunk 0 and timed out waiting for chunk 1.
C17_Witness ==
  /\ Done(Reader)
  /\ results[Reader][1] = Err("Writer timeout waiting for chunk", 1, 0)
  /\ loc[Reader].copied = 1

\* C18: deadlock freedom. In a single transfer from a READY region in which
\* no wait times out and each party keeps taking its steps, eventually both
\* calls have ended: the writer has completed and the reader has returned (no
\* party stays blocked in a wait for ever).
C18_DeadlockFree == <>(Done(Writer) /\ Done(Reader))

\* The first transfer is over and it failed: its writer ended with a timeout
\* error or its reader ended with an error.
FirstTransferFailed ==
  /\ Len(results[Writer]) >= 1
  /\ Len(results[Reader]) >= 1
  /\ \/ results[Writer][1].msg \in {"Reader handshake timeout", "Reader timeout on chunk"}
     \/ results[Reader][1].kind = "error"

\* C19: a failed transfer does not wedge the region. After a first transfer
\* that failed and whose two parties have terminated, a fresh writer and
\* reader on the same region, with no timeout, end with the reader returning
\* the new payload and the writer completing without error.
C19_NoWedge ==
  FirstTransferFailed =>
    /\ Len(results[Reader]) >= 2 => results[Reader][2] = Ok(script[Writer][2].data)
    /\ Len(results[Writer]) >= 2 => results[Writer][2].kind = "ok"

\* C20: the writer advances only on READY. Whenever the writer generator is
\* resumed with a wait response other than timed-out, and so goes on to stage
\* the next chunk or to complete, the semaphore is READY at that moment.
C20_AdvanceOnReady ==
  [][(/\ pc[Writer] = "resume"
      /\ pc'[Writer] # "resume"
      /\ phase[Writer] \in {"w_hs", "w_pl"}
      /\ wres[Writer] # "timed-out")
     => header[SEMAPHORE] = READY]_vars

\* The values party p stored into the semaphore, in order.
StoredBy(p) ==
  LET ByP(e) == e[1] = p
      own == SelectSeq(stores, ByP)
  IN  [k \in 1..Len(own) |-> own[k][2]]

\* C21: the two drains are equivalent. Whichever drain runs a generator, the
\* wait is made on the yielded request unchanged (word 0 compared with the
\* request's value), the wait result reaches the generator unaltered, and the
\* stores and the outcome of the call follow from the results fed alone: the
\* writer stores HANDSHAKE, one PAYLOAD per result fed before its last, and
\* READY, ending with the timeout error of the wait that timed out or without
\* error; the reader stores only READY and ends with a timeout error exactly
\* when its last result was timed-out.
C21_DrainEquivalence ==
  /\ [][\A p \in Parties :
           (pc[p] = "wait" /\ pc'[p] # "wait") =>
             /\ req[p].index = 0
             /\ req[p].timeout = 5000
             /\ IF header[0] # req[p].value
                  THEN /\ wres'[p] = "not-equal"
                       /\ waiters' = waiters
                       /\ pc'[p] = (IF Op(p).drain = "sync" THEN "resume" ELSE "await")
                  ELSE /\ waiters' = waiters \cup {p}
                       /\ pc'[p] = "sleep"]_vars
  /\ [][\A p \in Parties :
           (pc[p] = "await" /\ pc'[p] # "await") =>
             /\ pc'[p] = "resume"
             /\ wres'[p] = wres[p]]_vars
  /\ [][\A p \in Parties :
           (pc[p] = "sleep" /\ pc'[p] # "sleep") =>
             /\ pc'[p] = "resume"
             /\ wres'[p] \in {"ok", "timed-out"}]_vars
  /\ [](Done(Writer) =>
          LET n == loc[Writer].staged
          IN  /\ StoredBy(Writer) =
                   <<HANDSHAKE>> \o [k \in 1..n |-> PAYLOAD] \o <<READY>>
              /\ results[Writer][1] =
                   IF wres[Writer] # "timed-out" THEN Ok(<<>>)
                   ELSE IF n = 0 THEN Err("Reader handshake timeout", 0, 0)
                   ELSE Err("Reader timeout on chunk", n - 1,
                            ((Len(X) + ChunkCapacity - 1) \div ChunkCapacity) - 1)
              /\ wres[Writer] # "timed-out" =>
                   n * ChunkCapacity >= Len(X) /\ (n - 1) * ChunkCapacity < Len(X))
  /\ [](Done(Reader) =>
          /\ \A k \in 1..Len(StoredBy(Reader)) : StoredBy(Reader)[k] = READY
          /\ Len(StoredBy(Reader)) =
               (IF loc[Reader].acked THEN 1 ELSE 0) + ChunksAcked
          /\ wres[Reader] = "timed-out" <=>
               results[Reader][1].msg \in
                 {"Handshake timeout", "Writer timeout waiting for chunk"})

\* A two-chunk transfer through write and read (both awaitable) has ended
\* with the payload delivered.
C21_Witness ==
  /\ script[Writer][1].drain = "async"
  /\ script[Reader][1].drain = "async"
  /\ Done(Writer)
  /\ results[Writer][1].kind = "ok"
  /\ Done(Reader)
  /\ results[Reader][1] = Ok(X)
  /\ Len(X) > ChunkCapacity

\* The timeout configured for party p's call: its option, 5000 without one.
Configured(p) ==
  IF "timeout" \in DOMAIN script[p][1] THEN script[p][1].timeout ELSE 5000

\* ceil(L / P) for the payload of the transfer.
TotalChunks == (Len(X) + ChunkCapacity - 1) \div ChunkCapacity

\* C22: wait-request sequence. With no timeout firing, the writer yields 1 +
\* totalChunks requests, the first expecting HANDSHAKE and the later ones
\* PAYLOAD, and the reader yields 1 + totalChunks requests all expecting
\* READY; each request is on word 0 with the configured timeout (5000 without
\* the option); for an empty payload each side yields one request and PAYLOAD
\* is never stored.
C22_WaitRequests ==
  /\ \A k \in 1..Len(yielded[Writer]) :
       yielded[Writer][k] =
         [index |-> 0, value |-> IF k = 1 THEN HANDSHAKE ELSE PAYLOAD,
          timeout |-> Configured(Writer)]
  /\ \A k \in 1..Len(yielded[Reader]) :
       yielded[Reader][k] =
         [index |-> 0, value |-> READY, timeout |-> Configured(Reader)]
  /\ Len(yielded[Writer]) <= 1 + TotalChunks
  /\ Len(yielded[Reader]) <= 1 + TotalChunks
  /\ Done(Writer) => Len(yielded[Writer]) = 1 + TotalChunks
  /\ Done(Reader) => Len(yielded[Reader]) = 1 + TotalChunks
  /\ Len(X) = 0 => \A k \in 1..Len(stores) : stores[k][2] # PAYLOAD

\* The two timeout errors of the reader.
ReaderTimeoutErrors == {"Handshake timeout", "Writer timeout waiting for chunk"}

\* C23: integrity errors are not caused by a conforming peer. In one transfer
\* between the two unmodified generators on a region that starts READY, with
\* timeouts free to fire on either side, a reader that fails fails with one
\* of its two timeout errors, never with a protocol-integrity error.
C23_NoIntegrityError ==
  (Done(Reader) /\ results[Reader][1].kind = "error") =>
    results[Reader][1].msg \in ReaderTimeoutErrors

\* The reader's call fails in this step.
ReaderFails ==
  /\ Len(results'[Reader]) = Len(results[Reader]) + 1
  /\ results'[Reader][Len(results'[Reader])].kind = "error"

\* C24: the reader does not reset on error. On each of its failure paths
\* (either timeout, invalid handshake state or values, wrong payload state,
\* index mismatch, invalid chunk metadata) the step that fails stores nothing
\* and notifies nobody, leaves header and payload area as they were, and is
\* the reader's last step.
C24_NoReaderReset ==
  /\ [][ReaderFails =>
          /\ header' = header
          /\ payload' = payload
          /\ stores' = stores
          /\ waiters' = waiters
          /\ last2'[Reader] = last2[Reader] \/ last2'[Reader][2] = "read"
          /\ pc'[Reader] = "idle"]_vars
  /\ [][(Done(Reader) /\ results[Reader][1].kind = "error") =>
          /\ last2'[Reader] = last2[Reader]
          /\ stores' = stores]_vars

\* The reader failed on the metadata of a chunk and the semaphore still holds
\* PAYLOAD.
C24_Witness ==
  /\ Done(Reader)
  /\ results[Reader][1].msg = "Invalid chunk metadata for chunk"
  /\ header[SEMAPHORE] = PAYLOAD

\* C25: header layout. The header is 4 words of 32 bits, 16 bytes; the
\* semaphore is word 0, total size and chunk index share word 1, total chunks
\* and chunk offset share word 2, chunk size is word 3, every field index is
\* below HEADER_VALUES; the payload area, and the capacity writer and reader
\* compute with, is the region byte length minus 16.
C25_HeaderLayout ==
  /\ HEADER_VALUES = 4
  /\ HEADER_SIZE = 16
  /\ DOMAIN header = 0..3
  /\ SEMAPHORE = 0
  /\ TOTAL_SIZE = 1 /\ CHUNK_INDEX = 1
  /\ TOTAL_CHUNKS = 2 /\ CHUNK_OFFSET = 2
  /\ CHUNK_SIZE = 3
  /\ \A f \in {SEMAPHORE, TOTAL_SIZE, TOTAL_CHUNKS, CHUNK_INDEX, CHUNK_OFFSET,
                CHUNK_SIZE} : f < HEADER_VALUES
  /\ Len(payload) = byteLength - 16
  /\ pc[Writer] \in {"w_plStore", "w_plNotify"} =>
       /\ header[1] = loc[Writer].staged - 1
       /\ header[2] = (loc[Writer].staged - 1) * (byteLength - 16)
       /\ header[3] = Min(byteLength - 16, Len(X) - header[2])
  /\ pc[Writer] \in {"w_hsStore", "w_hsNotify"} =>
       /\ header[1] = Len(X)
       /\ header[2] = (Len(X) + (byteLength - 16) - 1) \div (byteLength - 16)
  /\ pc[Reader] = "r_copy" => loc[Reader].size <= byteLength - 16
  /\ pc[Reader] = "r_hsStore" =>
       loc[Reader].totalSize <= loc[Reader].totalChunks * (byteLength - 16)

\* On the larger of the two regions the writer has published the metadata of
\* its second chunk.
C25_Witness ==
  /\ byteLength = HEADER_SIZE + BYTES_PER_ELEMENT * (PayloadWords + 1)
  /\ pc[Writer] = "w_plNotify"
  /\ header[1] = 1
  /\ header[2] = byteLength - 16
  /\ header[3] >= 1

\* The stores of a whole transfer of the payload X, as <<party, value>>:
\* HANDSHAKE, READY, then PAYLOAD, READY per chunk, then the cleanup READY.
ExpectedStores ==
  LET n == 2 * TotalChunks + 3
  IN  [k \in 1..n |->
         IF k = n THEN <<Writer, READY>>
         ELSE IF k % 2 = 0 THEN <<Reader, READY>>
         ELSE <<Writer, IF k = 1 THEN HANDSHAKE ELSE PAYLOAD>>]

\* C26: semaphore store sequence. In a single transfer with no timeout the
\* stores into the semaphore are, in order, HANDSHAKE by the writer, READY by
\* the reader, then PAYLOAD by the writer and READY by the reader for each
\* chunk, then READY by the writer's cleanup; the semaphore holds only READY,
\* HANDSHAKE or PAYLOAD, and the reader stores only READY.
C26_StoreSequence ==
  /\ header[SEMAPHORE] \in {READY, HANDSHAKE, PAYLOAD}
  /\ \A k \in 1..Len(stores) :
       stores[k][1] = Reader => stores[k][2] = READY
  /\ Len(stores) <= Len(ExpectedStores)
  /\ \A k \in 1..Len(stores) :
       k <= Len(ExpectedStores) =>
         <<stores[k][1], stores[k][2]>> = ExpectedStores[k]
  /\ (Done(Writer) /\ Done(Reader)) => Len(stores) = Len(ExpectedStores)

\* Party p's last access to the region was a store to the semaphore.
JustStored(p) == last2[p][2] \in {"store", "store READY"}

\* C27: notify follows every store. After each store to the semaphore
\* (HANDSHAKE, PAYLOAD and the cleanup READY of the writer, the handshake and
\* chunk acknowledgments of the reader) the same party's next access to the
\* region is a notify on word 0, made before it yields its next wait request
\* or terminates.
C27_NotifyFollowsStore ==
  /\ [][\A p \in Parties :
           (JustStored(p) /\ last2'[p] # last2[p]) =>
             /\ last2'[p] = <<last2[p][2], "notify">>
             /\ waiters' = {}]_vars
  /\ [](\A p \in Parties :
          JustStored(p) =>
            pc[p] \in {"w_hsNotify", "w_plNotify", "w_finNotify",
                       "r_hsNotify", "r_plNotify"})
  /\ [][\A p \in Parties :
           (JustStored(p) /\ pc'[p] # pc[p]) =>
             /\ ~JustStored(p)'
             /\ pc'[p] \in {"wait", "idle"}]_vars

\* The reader has acknowledged its first chunk, notified, and yielded the
\* request for the next one.
C27_Witness ==
  /\ pc[Reader] = "wait"
  /\ last2[Reader] = <<"store READY", "notify">>
  /\ loc[Reader].copied = 1
  /\ Len(yielded[Reader]) = 3

\* Party p issues the wait its generator yielded.
IssuesWait(p) == pc[p] = "wait" /\ pc'[p] # "wait"

\* C28: start-order independence (no lost wake-up). In a single transfer
\* with no timeout, in whatever order the two parties start and in whatever
\* order each wait and the peer's store and notify it is for are issued, a
\* party that terminates has completed successfully (the writer returned, the
\* reader returned the payload), and a wait issued when word 0 no longer
\* holds the expected value returns "not-equal" at once without suspending.
C28_StartOrderIndependence ==
  /\ [](Done(Writer) => results[Writer][1].kind = "ok")
  /\ [](Done(Reader) => /\ results[Reader][1].kind = "ok"
                        /\ results[Reader][1].value = X)
  /\ [][\A p \in Parties :
           (IssuesWait(p) /\ header[SEMAPHORE] # req[p].value) =>
             /\ pc'[p] = "resume"
             /\ wres'[p] = "not-equal"
             /\ p \notin waiters']_vars

\* C29: a conforming writer always passes the reader's validation. For every
\* payload length L >= 0 and capacity P > 0 the handshake values published by
\* writeGenerator satisfy the reader's handshake checks (and the metadata of
\* every chunk its index and chunk checks): the reader of a transfer whose
\* writer is writeGenerator never ends with 'Invalid handshake values'.
C29_ConformingWriterPasses ==
  Done(Reader) => results[Reader][1].msg # "Invalid handshake values"

\* C30: reader integrity under writer timeout. In a single transfer where
\* timeouts may fire on either side, whenever the reader returns a buffer,
\* that buffer equals the payload given to the writer byte for byte, also
\* when the writer itself ended with a timeout error.
C30_ReaderIntegrity ==
  \A k \in 1..Len(results[Reader]) :
    results[Reader][k].kind = "ok" =>
      /\ Len(results[Reader][k].value) = Len(X)
      /\ \A b \in 1..Len(X) : results[Reader][k].value[b] = X[b]

\* The errors writeGenerator throws when one of its waits times out.
WriterTimeoutErrors == {"Reader handshake timeout", "Reader timeout on chunk"}

\* C31: agreement on outcome. In a single transfer where timeouts may fire,
\* if the reader returned a payload successfully then the writer of that
\* transfer does not end with 'Reader handshake timeout' or 'Reader timeout
\* on chunk ...'.
C31_OutcomeAgreement ==
  (/\ Done(Reader)
   /\ Done(Writer)
   /\ results[Reader][1].kind = "ok") =>
    results[Writer][1].msg \notin WriterTimeoutErrors

\* The payloads the writer is given, one per call.
Payloads == {script[Writer][k].data : k \in 1..Len(script[Writer])}

\* C32: no cross-phase or cross-transfer misreading of the overloaded header
\* words. In any interleaving, also when the writer timed out, ran its
\* cleanup and began a new transfer while the reader is still in its read,
\* the reader reads words 1-3 as chunk index, offset and size only while
\* they hold values written as chunk metadata, stores READY for a HANDSHAKE
\* only if the handshake values in the header are the ones it validated, and
\* returns only a buffer equal to a payload given to the writer.
C32_NoMisreading ==
  /\ [][/\ ReaderLeaves("r_idx") => written[CHUNK_INDEX] = "chunk"
        /\ ReaderLeaves("r_off") => written[CHUNK_OFFSET] = "chunk"
        /\ ReaderLeaves("r_size") => written[CHUNK_SIZE] = "chunk"]_vars
  /\ [][(ReaderLeaves("r_hsStore") /\ header[SEMAPHORE] = HANDSHAKE) =>
          /\ written[TOTAL_SIZE] = "handshake"
          /\ written[TOTAL_CHUNKS] = "handshake"
          /\ header[TOTAL_SIZE] = loc[Reader].totalSize
          /\ header[TOTAL_CHUNKS] = loc[Reader].totalChunks]_vars
  /\ [](\A k \in 1..Len(results[Reader]) :
          results[Reader][k].kind = "ok" =>
            results[Reader][k].value \in Payloads)

\* C33: output coverage. For arbitrary header contents accepted by the
\* reader's checks, whenever the reader returns successfully the chunks it
\* copied cover every position 0..totalSize-1 of the output buffer exactly
\* once: no byte is left at its initial zero, none is overwritten.
C33_OutputCoverage ==
  (Done(Reader) /\ results[Reader][1].kind = "ok") =>
    /\ Len(loc[Reader].cover) = Len(results[Reader][1].value)
    /\ \A k \in 1..Len(loc[Reader].cover) : loc[Reader].cover[k] = 1

\* The writer copies a chunk of its input into the payload area.
WriterCopies == pc[Writer] = "w_set" /\ pc'[Writer] # "w_set"

\* C34: copies stay in bounds. For arbitrary header contents, every copy of
\* the reader takes chunkSize <= P bytes from the start of the payload area
\* and writes only output positions [chunkOffset, chunkOffset + chunkSize),
\* which lie within [0, totalSize); every copy of the writer writes at most
\* P bytes from payload-area offset 0 and reads only input positions
\* within [0, L).
C34_CopiesInBounds ==
  /\ [][ReaderLeaves("r_copy") =>
          LET off == loc[Reader].offset
              sz == loc[Reader].size
          IN  /\ 0 <= sz /\ sz <= byteLength - HEADER_SIZE
              /\ sz <= Len(payload)
              /\ 0 <= off /\ off + sz <= loc[Reader].totalSize
              /\ Len(loc[Reader].data) = loc[Reader].totalSize
              /\ Len(loc'[Reader].data) = loc[Reader].totalSize
              /\ \A k \in 1..loc[Reader].totalSize :
                   (k <= off \/ k > off + sz) =>
                     loc'[Reader].data[k] = loc[Reader].data[k]
              /\ payload' = payload]_vars
  /\ [][WriterCopies =>
          LET L == Len(loc[Writer].input)
              P == byteLength - HEADER_SIZE
              start == loc[Writer].i * P
              n == (IF start + P <= L THEN start + P ELSE L) - start
          IN  /\ 0 <= start /\ 0 <= n /\ n <= P
              /\ start + n <= L
              /\ Len(payload') = P
              /\ \A k \in 1..P :
                   payload'[k] = IF k <= n THEN loc[Writer].input[start + k]
                                 ELSE payload[k]]_vars

\* The reader has copied the chunk that ends at the last byte of a buffer of
\* P + 1 bytes (offset P, size 1).
C34_Witness ==
  /\ pc[Reader] = "r_plStore"
  /\ loc[Reader].totalSize = Capacity + 1
  /\ loc[Reader].offset = Capacity
  /\ loc[Reader].size = 1
  /\ loc[Reader].cover[Capacity + 1] = 1

\* The reader's generator is running (it is not suspended at a yield, where
\* only its peer and its caller act).
ReaderRuns == pc[Reader] # "wait"

\* C35: reader frame. Across a whole read, successful or failed, the only
\* change the reader makes to the shared region is storing READY into word
\* 0: it never writes header words 1-3 or a byte of the payload area, and it
\* stores READY exactly once per accepted handshake and once per accepted
\* chunk (1 + totalChunks stores on a successful read).
C35_ReaderFrame ==
  /\ [][ReaderRuns =>
          /\ payload' = payload
          /\ byteLength' = byteLength
          /\ \A w \in 1..(HEADER_VALUES - 1) : header'[w] = header[w]
          /\ header'[SEMAPHORE] # header[SEMAPHORE] => header'[SEMAPHORE] = READY
          /\ stores' # stores <=>
               (ReaderLeaves("r_hsStore") \/ ReaderLeaves("r_plStore"))
          /\ stores' # stores =>
               /\ Len(stores') = Len(stores) + 1
               /\ stores'[Len(stores')][1] = Reader
               /\ stores'[Len(stores')][2] = READY
               /\ header'[SEMAPHORE] = READY]_vars
  /\ [][~ReaderRuns => stores' = stores]_vars
  /\ [](IF loc[Reader].copied = 0
          THEN Len(stores) <= 1
          ELSE Len(stores) = loc[Reader].copied
                             + (IF pc[Reader] = "r_plStore" THEN 0 ELSE 1))
  /\ []((Done(Reader) /\ results[Reader][1].kind = "ok") =>
          /\ Len(stores) = 1 + loc[Reader].totalChunks
          /\ loc[Reader].copied = loc[Reader].totalChunks)

\* A read of one chunk has returned after two stores of READY, the payload
\* area still holding the bytes its peer put there.
C35_Witness ==
  /\ Done(Reader)
  /\ results[Reader][1].kind = "ok"
  /\ loc[Reader].totalChunks = 1
  /\ Len(stores) = 2
  /\ payload # Zeros(Len(payload))

====
